---- MODULE Spec2Model ----
(***************************************************************************)
(* Model of sphinx_substitution_extensions/__init__.py.                    *)
(*                                                                         *)
(* Strings are sequences of one-character strings, so that str.replace,    *)
(* str.format and astext() are computed rather than assumed.  A mapping    *)
(* (a Python dict) is a sequence of [name, value] records with distinct    *)
(* names: the sequence order is the dict's iteration order.                *)
(***************************************************************************)
EXTENDS Integers, Sequences, FiniteSets

VARIABLES
    directives,   \* docutils' directive registry: name -> class bound to it
    roles,        \* role names registered through app.add_role
    module,       \* "unimported", "imported", or "KeyError": the last import
                  \* raised (a failed import is not cached in sys.modules)
    log,          \* messages passed to LOGGER.error by the latest run of the module body
    mySphinx,     \* the module global: unbound (None), or bound to the app of
                  \* the last setup(), whose config is read at every run
    op,           \* the handler in progress: "none", "code-block", "prompt", "role"
    options,      \* self.options of the directive run
    defs,         \* document.substitution_defs seen by the handler
    inContent,    \* self.content on entry to the directive run
    outContent,   \* self.content handed to super().run()
    inText,       \* text argument of the role call
    inRaw,        \* rawtext argument of the role call
    outText,      \* text handed to code_role
    outRaw,       \* rawtext handed to code_role
    error         \* the exception the handler raised: "none" or "TypeError"

vars == <<directives, roles, module, log, mySphinx, op, options, defs,
          inContent, outContent, inText, inRaw, outText, outRaw, error>>

----------------------------------------------------------------------------
(* Bounds and input sets *)

\* Longest line / inline text that is enumerated.
MaxLen == 4

\* Characters of the enumerated texts: the delimiter and the two names.
Alphabet == {"|", "a", "b"}

Texts == UNION {[1..k -> Alphabet] : k \in 0..MaxLen}

\* Substitution names.
Names == {<<"a">>, <<"b">>}

\* Document substitution values are nodes: a node is the sequence of the
\* texts of its children; astext() concatenates them.
Nodes == { << <<"x">> >>,
           << <<"|", "b">>, <<"|">> >>,
           << <<"|", "b">> >> }

\* Host-config (myst_substitutions) values are any Python values the
\* configuration holds: a string, which may itself hold a marker, or a
\* number (val is then its digits).
MystValues == { [type |-> "str", val |-> <<"y">>],
                [type |-> "str", val |-> <<"|", "a", "|">>],
                [type |-> "int", val |-> <<"5">>] }

\* Dicts with values drawn from a set: sequences of [name, value] records
\* with pairwise distinct names (a dict has one entry per key).
Entries(values) == [name : Names, value : values]

DictsOver(values) ==
    {d \in UNION {[1..k -> Entries(values)] : k \in 0..Cardinality(Names)} :
        \A i \in 1..Len(d) : \A j \in 1..Len(d) :
            i # j => d[i].name # d[j].name}

\* document.substitution_defs of the documents that are processed.
DefMappings == DictsOver(Nodes)

\* config['myst_substitutions'] when myst-parser has registered it.
MystMappings == DictsOver(MystValues)

\* An app's config without this extension's own value: the names of the
\* registered config values, and the value of myst_substitutions when
\* myst-parser registered it.
AppConfigs ==
    { [names |-> {"myst_substitutions"}, myst_substitutions |-> m] :
        m \in MystMappings }
    \cup { [names |-> {}, myst_substitutions |-> <<>>] }

\* Directive options: the flag is present or absent.
OptionSets == { {}, {"substitutions"} }

\* Block content: no line, one line, or two lines that are markers.
Contents ==
    {<<>>}
    \cup {<<t>> : t \in Texts}
    \cup {<< <<"|">> \o n \o <<"|">>, <<"|">> \o m \o <<"|">> >> :
             n \in Names, m \in Names}

----------------------------------------------------------------------------
(* Library functions the handlers call *)

\* Python's s.replace(old, new): every non-overlapping occurrence of old,
\* found left to right, is replaced; with old empty, new is put before every
\* character and at the end.
RECURSIVE Replace(_, _, _)
Replace(s, old, new) ==
    IF old = <<>>
    THEN IF s = <<>>
         THEN new
         ELSE new \o <<Head(s)>> \o Replace(Tail(s), old, new)
    ELSE IF Len(s) < Len(old)
    THEN s
    ELSE IF SubSeq(s, 1, Len(old)) = old
    THEN new \o Replace(SubSeq(s, Len(old) + 1, Len(s)), old, new)
    ELSE <<Head(s)>> \o Replace(Tail(s), old, new)

\* docutils' Node.astext() of a substitution definition: the texts of the
\* children, concatenated.
RECURSIVE astext(_)
astext(node) ==
    IF node = <<>> THEN <<>> ELSE Head(node) \o astext(Tail(node))

\* Mutant of Marker: the format string without its '|' delimiters.
Marker_NoDelimiters(name) == name

\* '|{original}|'.format(original=name)
Marker(name) == <<"|">> \o name \o <<"|">>

_SUBSTITUTION_OPTION_NAME == "substitutions"

\* The message logged when sphinx-prompt was not loaded first.
MESSAGE == "sphinx-prompt must be in the conf.py extensions list before sphinx_substitution_extensions"

----------------------------------------------------------------------------
(* SubstitutionCodeBlock.run *)

\* Mutant of ReplaceDefs: the bare name is replaced as well as the marker
\* (the rule the inline role applies to its raw form).
RECURSIVE ReplaceDefs_BareNames(_, _)
ReplaceDefs_BareNames(item, sdefs) ==
    IF sdefs = <<>>
    THEN item
    ELSE LET name == Head(sdefs).name
             replacement == astext(Head(sdefs).value)
         IN ReplaceDefs_BareNames(
                Replace(Replace(item, <<"|">> \o name \o <<"|">>, replacement),
                        name, replacement),
                Tail(sdefs))

\* for name, value in substitution_defs.items(): item = item.replace(...)
RECURSIVE ReplaceDefs(_, _)
ReplaceDefs(item, sdefs) ==
    IF sdefs = <<>>
    THEN item
    ELSE LET name == Head(sdefs).name
             replacement == astext(Head(sdefs).value)
         IN ReplaceDefs(Replace(item, Marker(name), replacement), Tail(sdefs))

\* for name, value in mystSubstitutions.items(): item = item.replace(...)
\* str.replace raises TypeError when the replacement is not a str, whether
\* or not the marker occurs.  The result is [raised, text].
RECURSIVE ReplaceMyst(_, _)
ReplaceMyst(item, myst) ==
    IF myst = <<>>
    THEN [raised |-> "none", text |-> item]
    ELSE LET name == Head(myst).name
             value == Head(myst).value
         IN IF value.type # "str"
            THEN [raised |-> "TypeError", text |-> item]
            ELSE ReplaceMyst(Replace(item, Marker(name), value.val), Tail(myst))

\* mystSubstitutions = {}; if 'myst_substitutions' in mySphinx.config: ...
MystSubstitutions(config) ==
    IF "myst_substitutions" \in config.names
    THEN config.myst_substitutions
    ELSE <<>>

\* Mutant of CodeBlockItem: the test of the option is dropped.
CodeBlockItem_IgnoresFlag(item, opts, sdefs, myst) ==
    ReplaceMyst(ReplaceDefs(item, sdefs), myst)

\* Mutant of CodeBlockItem: the loop over mystSubstitutions is missing.
CodeBlockItem_NoMystPass(item, opts, sdefs, myst) ==
    IF _SUBSTITUTION_OPTION_NAME \in opts
    THEN [raised |-> "none", text |-> ReplaceDefs(item, sdefs)]
    ELSE [raised |-> "none", text |-> item]

\* Mutant of CodeBlockItem: the two loops in the other order.
CodeBlockItem_MystFirst(item, opts, sdefs, myst) ==
    IF _SUBSTITUTION_OPTION_NAME \in opts
    THEN LET first == ReplaceMyst(item, myst)
         IN [raised |-> first.raised, text |-> ReplaceDefs(first.text, sdefs)]
    ELSE [raised |-> "none", text |-> item]

\* The body of "for item in existing_content", up to new_content.append:
\* [raised, text], text being the item appended when nothing was raised.
CodeBlockItem(item, opts, sdefs, myst) ==
    IF _SUBSTITUTION_OPTION_NAME \in opts
    THEN ReplaceMyst(ReplaceDefs(item, sdefs), myst)
    ELSE [raised |-> "none", text |-> item]

\* The loop over existing_content: [raised, content], content being
\* new_content after the loop when no item raised.
RECURSIVE CodeBlockContent(_, _, _, _)
CodeBlockContent(content, opts, sdefs, myst) ==
    IF content = <<>>
    THEN [raised |-> "none", content |-> <<>>]
    ELSE LET first == CodeBlockItem(Head(content), opts, sdefs, myst)
             rest == CodeBlockContent(Tail(content), opts, sdefs, myst)
         IN IF first.raised # "none"
            THEN [raised |-> first.raised, content |-> <<>>]
            ELSE IF rest.raised # "none"
            THEN rest
            ELSE [raised |-> "none", content |-> <<first.text>> \o rest.content]

----------------------------------------------------------------------------
(* SubstitutionPrompt.run *)

\* Mutant of PromptItem: the host-config pass of the code block is applied
\* to prompts too.
PromptItem_WithHostConfig(item, opts, sdefs) ==
    IF _SUBSTITUTION_OPTION_NAME \in opts
    THEN ReplaceMyst(ReplaceDefs(item, sdefs),
                     MystSubstitutions(mySphinx.config)).text
    ELSE item

\* for name, value in substitution_defs.items(): if flag: item = item.replace
RECURSIVE PromptItem(_, _, _)
PromptItem(item, opts, sdefs) ==
    IF sdefs = <<>>
    THEN item
    ELSE LET name == Head(sdefs).name
             value == Head(sdefs).value
             next == IF _SUBSTITUTION_OPTION_NAME \in opts
                     THEN Replace(item, Marker(name), astext(value))
                     ELSE item
         IN PromptItem(next, opts, Tail(sdefs))

RECURSIVE PromptContent(_, _, _)
PromptContent(content, opts, sdefs) ==
    IF content = <<>>
    THEN <<>>
    ELSE <<PromptItem(Head(content), opts, sdefs)>>
         \o PromptContent(Tail(content), opts, sdefs)

----------------------------------------------------------------------------
(* substitution_code_role *)

\* Mutant of RoleLoop: the bare-name replacement is applied to the display
\* text as well as to the raw form.
RECURSIVE RoleLoop_BareNamesInText(_, _, _)
RoleLoop_BareNamesInText(text, rawtext, sdefs) ==
    IF sdefs = <<>>
    THEN <<text, rawtext>>
    ELSE LET name == Head(sdefs).name
             replacement == astext(Head(sdefs).value)
             text1 == Replace(Replace(text, Marker(name), replacement),
                              name, replacement)
             raw1 == Replace(text1, Marker(name), replacement)
             raw2 == Replace(raw1, name, replacement)
         IN RoleLoop_BareNamesInText(text1, raw2, Tail(sdefs))

\* The loop over document.substitution_defs.items(); the result is the pair
\* <<text, rawtext>> passed to code_role.
RECURSIVE RoleLoop(_, _, _)
RoleLoop(text, rawtext, sdefs) ==
    IF sdefs = <<>>
    THEN <<text, rawtext>>
    ELSE LET name == Head(sdefs).name
             replacement == astext(Head(sdefs).value)
             text1 == Replace(text, Marker(name), replacement)
             raw1 == Replace(text1, Marker(name), replacement)
             raw2 == Replace(raw1, name, replacement)
         IN RoleLoop(text1, raw2, Tail(sdefs))

\* The raw markup of an inline role whose interpreted text is t:
\* :substitution-code: followed by t in backquotes (the role name is abbreviated to one character).
RawTextOf(t) == <<":", "s", ":", "'">> \o t \o <<"'">>

----------------------------------------------------------------------------
(* State machine *)

\* No handler is running: the record of the call is empty.
NoCall ==
    /\ op = "none"
    /\ options = {}
    /\ defs = <<>>
    /\ inContent = <<>>
    /\ outContent = <<>>
    /\ inText = <<>>
    /\ inRaw = <<>>
    /\ outText = <<>>
    /\ outRaw = <<>>
    /\ error = "none"

\* Before the extension is imported: Sphinx has registered 'code-block';
\* 'prompt' is registered only if sphinx-prompt was loaded first.
Init ==
    /\ directives \in
         { [d \in {"code-block", "prompt"} |->
              IF d = "code-block" THEN "CodeBlock" ELSE p] :
           p \in {"PromptDirective", "absent"} }
    /\ roles = {}
    /\ module = "unimported"
    /\ log = <<>>
    /\ mySphinx = [bound |-> FALSE,
                   config |-> [names |-> {}, myst_substitutions |-> <<>>]]
    /\ NoCall

\* sphinx-prompt is loaded by the host: 'prompt' is registered.
LoadSphinxPrompt ==
    /\ directives["prompt"] = "absent"
    /\ directives' = [directives EXCEPT !["prompt"] = "PromptDirective"]
    /\ UNCHANGED <<roles, module, log, mySphinx, op, options, defs,
                   inContent, outContent, inText, inRaw, outText, outRaw, error>>

\* Execution of the module body (import): the error is logged when 'prompt'
\* is not registered, and the lookup _EXISTING_DIRECTIVES['prompt'] that
\* follows raises KeyError, which ends the import.  A failed import leaves
\* no module behind, so a later import statement runs the body again, any
\* number of times (each run logs and raises as long as 'prompt' is missing);
\* a completed import is cached and the body does not run again.
ImportModule ==
    /\ module \in {"unimported", "KeyError"}
    /\ directives["code-block"] # "absent"
    /\ log' = IF directives["prompt"] = "absent" THEN <<MESSAGE>> ELSE <<>>
    /\ module' = IF directives["prompt"] = "absent" THEN "KeyError" ELSE "imported"
    /\ UNCHANGED <<directives, roles, mySphinx, op, options, defs,
                   inContent, outContent, inText, inRaw, outText, outRaw, error>>

\* setup(app), for the first app or for a later app of the same process
\* (the import is cached; setup is called per app): mySphinx is rebound to
\* the app, whose config receives the 'substitutions' value.
Setup ==
    /\ module = "imported"
    /\ op = "none"
    /\ \E config \in AppConfigs :
         mySphinx' = [bound |-> TRUE,
                      config |-> [config EXCEPT !.names = @ \cup {"substitutions"}]]
    /\ directives' = [directives EXCEPT !["prompt"] = "SubstitutionPrompt",
                                        !["code-block"] = "SubstitutionCodeBlock"]
    /\ roles' = roles \cup {"substitution-code"}
    /\ UNCHANGED <<module, log, op, options, defs,
                   inContent, outContent, inText, inRaw, outText, outRaw, error>>

\* The host changes the config of the app mySphinx refers to after setup()
\* returned (an extension loaded later registers myst_substitutions, or its
\* value is set): mySphinx is a reference, so the next run reads the new
\* config.
HostConfigChange ==
    /\ mySphinx.bound
    /\ op = "none"
    /\ \E config \in AppConfigs :
         /\ mySphinx' = [mySphinx EXCEPT
                !.config = [config EXCEPT !.names = @ \cup {"substitutions"}]]
         /\ mySphinx' # mySphinx
    /\ UNCHANGED <<directives, roles, module, log, op, options, defs,
                   inContent, outContent, inText, inRaw, outText, outRaw, error>>

\* SubstitutionCodeBlock.run on a code-block directive of a document; when
\* the loop raises, super().run() is not reached and no content is handed on.
CodeBlockRun ==
    /\ op = "none"
    /\ directives["code-block"] = "SubstitutionCodeBlock"
    /\ mySphinx.bound
    /\ \E content \in Contents, opts \in OptionSets, sdefs \in DefMappings :
         LET result == CodeBlockContent(content, opts, sdefs,
                                        MystSubstitutions(mySphinx.config))
         IN /\ op' = "code-block"
            /\ options' = opts
            /\ defs' = sdefs
            /\ inContent' = content
            /\ outContent' = result.content
            /\ error' = result.raised
    /\ inText' = <<>>
    /\ inRaw' = <<>>
    /\ outText' = <<>>
    /\ outRaw' = <<>>
    /\ UNCHANGED <<directives, roles, module, log, mySphinx>>

\* SubstitutionPrompt.run on a prompt directive of a document.
PromptRun ==
    /\ op = "none"
    /\ directives["prompt"] = "SubstitutionPrompt"
    /\ \E content \in Contents, opts \in OptionSets, sdefs \in DefMappings :
         /\ op' = "prompt"
         /\ options' = opts
         /\ defs' = sdefs
         /\ inContent' = content
         /\ outContent' = PromptContent(content, opts, sdefs)
    /\ error' = "none"
    /\ inText' = <<>>
    /\ inRaw' = <<>>
    /\ outText' = <<>>
    /\ outRaw' = <<>>
    /\ UNCHANGED <<directives, roles, module, log, mySphinx>>

\* substitution_code_role on an inline role of a document.
RoleRun ==
    /\ op = "none"
    /\ "substitution-code" \in roles
    /\ \E text \in Texts, sdefs \in DefMappings :
         LET result == RoleLoop(text, RawTextOf(text), sdefs)
         IN /\ op' = "role"
            /\ defs' = sdefs
            /\ inText' = text
            /\ inRaw' = RawTextOf(text)
            /\ outText' = result[1]
            /\ outRaw' = result[2]
    /\ options' = {}
    /\ inContent' = <<>>
    /\ outContent' = <<>>
    /\ error' = "none"
    /\ UNCHANGED <<directives, roles, module, log, mySphinx>>

\* The handler returns (after super().run() or code_role) or its exception
\* propagates: the handler's content and texts are not retained.
BaseReturn ==
    /\ op # "none"
    /\ op' = "none"
    /\ options' = {}
    /\ defs' = <<>>
    /\ inContent' = <<>>
    /\ outContent' = <<>>
    /\ inText' = <<>>
    /\ inRaw' = <<>>
    /\ outText' = <<>>
    /\ outRaw' = <<>>
    /\ error' = "none"
    /\ UNCHANGED <<directives, roles, module, log, mySphinx>>

Next ==
    \/ LoadSphinxPrompt
    \/ ImportModule
    \/ Setup
    \/ HostConfigChange
    \/ CodeBlockRun
    \/ PromptRun
    \/ RoleRun
    \/ BaseReturn

Spec == Init /\ [][Next]_vars

----------------------------------------------------------------------------
(* Vocabulary of the properties *)

\* pat occurs in s as a substring.
Contains(s, pat) ==
    \E i \in 1..(Len(s) - Len(pat) + 1) : SubSeq(s, i, i + Len(pat) - 1) = pat

\* The marker of a name, as the specification writes it: |name|.
MarkerOf(n) == <<"|">> \o n \o <<"|">>

FlagOn == "substitutions" \in options

\* A mapping as <<name, replacement text>> pairs, in iteration order.
DocPairs(d) == [i \in 1..Len(d) |-> <<d[i].name, astext(d[i].value)>>]
MystPairs(m) == [i \in 1..Len(m) |-> <<m[i].name, m[i].value.val>>]

\* The host-config mapping in force; an absent one counts as empty.
HostPairs ==
    IF "myst_substitutions" \in mySphinx.config.names
    THEN MystPairs(mySphinx.config.myst_substitutions)
    ELSE <<>>

\* Every value of the host-config mapping in force is a plain string, as
\* the specification's data model has it.
HostValuesAreStrings ==
    \A i \in 1..Len(MystSubstitutions(mySphinx.config)) :
        MystSubstitutions(mySphinx.config)[i].value.type = "str"

\* Every value of the mapping(s) the directive run passes over is a string.
PassValuesAreStrings == (op = "code-block") => HostValuesAreStrings

PairNames(pairs) == {pairs[i][1] : i \in 1..Len(pairs)}

\* One full pass over a mapping, from its k-th pair on: every |name| is
\* replaced by the pair's text, one name after the other.
RECURSIVE MarkerPass(_, _, _)
MarkerPass(t, pairs, k) ==
    IF k > Len(pairs)
    THEN t
    ELSE MarkerPass(Replace(t, MarkerOf(pairs[k][1]), pairs[k][2]), pairs, k + 1)

\* The raw-form pass of the inline role as the specification describes it:
\* for every name, |name| and then the bare name are replaced in the raw form.
RECURSIVE RawPass(_, _, _)
RawPass(r, pairs, k) ==
    IF k > Len(pairs)
    THEN r
    ELSE RawPass(Replace(Replace(r, MarkerOf(pairs[k][1]), pairs[k][2]),
                         pairs[k][1], pairs[k][2]),
                 pairs, k + 1)

\* No marker of any of the names occurs in t.
NoMarkerOf(t, names) == \A n \in names : ~Contains(t, MarkerOf(n))

\* The pairs of a mapping without the entry of name n.
RECURSIVE Without(_, _)
Without(pairs, n) ==
    IF pairs = <<>>
    THEN <<>>
    ELSE IF Head(pairs)[1] = n
    THEN Without(Tail(pairs), n)
    ELSE <<Head(pairs)>> \o Without(Tail(pairs), n)

\* The mapping(s) a directive run passes over: the document mapping, and for
\* a code block the host-config mapping after it.
PassPairs == IF op = "code-block" THEN DocPairs(defs) \o HostPairs ELSE DocPairs(defs)

\* No replacement value contains a |name| pattern of a mapped name.
ValuesMarkerFree ==
    \A i \in 1..Len(PassPairs) : NoMarkerOf(PassPairs[i][2], PairNames(PassPairs))

\* The directive run applied once more, to its own output, with the same
\* options and mappings.
RunAgain ==
    IF op = "code-block"
    THEN CodeBlockContent(outContent, options, defs,
                          MystSubstitutions(mySphinx.config)).content
    ELSE PromptContent(outContent, options, defs)

----------------------------------------------------------------------------
(* Properties *)

\* C1: when the 'substitutions' option is absent, the content a code-block or
\* prompt run hands to the base renderer is the input content, line for line,
\* whatever the document and host-config mappings are (host-config values
\* that are not strings included: no replace is attempted).
C1_FlagAbsentContentUnchanged ==
    (op \in {"code-block", "prompt"} /\ ~FlagOn) =>
        (error = "none" /\ outContent = inContent)

\* C1 witness: a code block without the flag whose first line holds a marker
\* of a document name and whose second line is a marker of a host-config name.
C1_Witness ==
    /\ op = "code-block"
    /\ ~FlagOn
    /\ Len(inContent) = 2
    /\ \E n \in PairNames(DocPairs(defs)) : Contains(inContent[1], MarkerOf(n))
    /\ \E n \in PairNames(HostPairs) : inContent[2] = MarkerOf(n)
    /\ outContent = inContent

\* C2: with the option present, line i of a code block's output is line i of
\* the input after a full pass over the document mapping followed by a full
\* pass over the host-config mapping of name -> string in force at the run
\* (absent = empty); nothing is raised and the number and order of the lines
\* are kept.
C2_CodeBlockTwoPasses ==
    (op = "code-block" /\ FlagOn /\ HostValuesAreStrings) =>
        /\ error = "none"
        /\ Len(outContent) = Len(inContent)
        /\ \A i \in 1..Len(inContent) :
             outContent[i] =
                 MarkerPass(MarkerPass(inContent[i], DocPairs(defs), 1), HostPairs, 1)

\* C2 witness: a name defined only in the host-config mapping is substituted
\* in the second line, after a document name was substituted in the first.
C2_Witness ==
    /\ op = "code-block"
    /\ FlagOn
    /\ error = "none"
    /\ Len(inContent) = 2
    /\ \E k \in 1..Len(HostPairs) :
         /\ HostPairs[k][1] \notin PairNames(DocPairs(defs))
         /\ inContent[2] = MarkerOf(HostPairs[k][1])
         /\ outContent[2] = HostPairs[k][2]
    /\ \E k \in 1..Len(defs) :
         /\ inContent[1] = MarkerOf(defs[k].name)
         /\ outContent[1] = astext(defs[k].value)

\* C3: with the option present, each output line of a prompt run is the input
\* line after the pass over the document mapping only; the host-config
\* mapping is not consulted.
C3_PromptDocumentMappingOnly ==
    (op = "prompt" /\ FlagOn) =>
        /\ Len(outContent) = Len(inContent)
        /\ \A i \in 1..Len(inContent) :
             outContent[i] = MarkerPass(inContent[i], DocPairs(defs), 1)

\* C3 witness: in a prompt, a document name is substituted in the first line
\* and the marker of a host-config-only name stays literal in the second.
C3_Witness ==
    /\ op = "prompt"
    /\ FlagOn
    /\ Len(inContent) = 2
    /\ \E k \in 1..Len(HostPairs) :
         /\ HostPairs[k][1] \notin PairNames(DocPairs(defs))
         /\ inContent[2] = MarkerOf(HostPairs[k][1])
         /\ outContent[2] = inContent[2]
    /\ \E k \in 1..Len(defs) :
         /\ inContent[1] = MarkerOf(defs[k].name)
         /\ outContent[1] = astext(defs[k].value)
         /\ outContent[1] # inContent[1]

\* C4: the display text the inline role forwards is the input text after the
\* pass over the document mapping: |name| is replaced, a bare name is not.
C4_RoleDisplayText ==
    (op = "role") =>
        /\ outText = MarkerPass(inText, DocPairs(defs), 1)
        /\ (~Contains(inText, <<"|">>) => outText = inText)

\* C4 witness: the text is a bare name followed by its marker; the marker is
\* replaced by the value and the bare name is kept.
C4_Witness ==
    /\ op = "role"
    /\ \E k \in 1..Len(defs) :
         /\ inText = defs[k].name \o MarkerOf(defs[k].name)
         /\ outText = defs[k].name \o astext(defs[k].value)
         /\ ~Contains(astext(defs[k].value), defs[k].name)

\* C5: the raw form the inline role forwards is the input raw form after, for
\* every document name, |name| and then the bare name were replaced in it.
C5_RawFromInputRaw ==
    (op = "role") => outRaw = RawPass(inRaw, DocPairs(defs), 1)

\* C6: a text in which no marker of a mapped name occurs is left as it is, by
\* a code-block run (document mapping and host-config mapping of name ->
\* string) and a prompt run with the option present and in the inline role's
\* display text; nothing is raised for unmatched or malformed markers.
C6_IdentityOnNonMatching ==
    /\ (op = "code-block" /\ FlagOn /\ HostValuesAreStrings) =>
          /\ error = "none"
          /\ \A i \in 1..Len(inContent) :
                NoMarkerOf(inContent[i], PairNames(DocPairs(defs)) \cup PairNames(HostPairs))
                    => outContent[i] = inContent[i]
    /\ (op = "prompt" /\ FlagOn) =>
          /\ error = "none"
          /\ \A i \in 1..Len(inContent) :
                NoMarkerOf(inContent[i], PairNames(DocPairs(defs)))
                    => outContent[i] = inContent[i]
    /\ (op = "role") =>
          /\ error = "none"
          /\ NoMarkerOf(inText, PairNames(DocPairs(defs))) => outText = inText

\* C6 witness: a code-block line with a malformed marker (a '|' next to a
\* mapped name, no closing '|') passes through both mappings unchanged.
C6_Witness ==
    /\ op = "code-block"
    /\ FlagOn
    /\ error = "none"
    /\ Len(inContent) > 0
    /\ Len(defs) > 0
    /\ Len(HostPairs) > 0
    /\ \E n \in PairNames(DocPairs(defs)) : Contains(inContent[1], <<"|">> \o n)
    /\ NoMarkerOf(inContent[1], PairNames(DocPairs(defs)) \cup PairNames(HostPairs))
    /\ outContent[1] = inContent[1]

\* C7 as stated: when no replacement value (a string) contains a |name|
\* pattern of a mapped name, running the directive's substitution on its own
\* output gives the output again.
C7_IdempotentAsStated ==
    (/\ op \in {"code-block", "prompt"}
     /\ FlagOn
     /\ PassValuesAreStrings
     /\ ValuesMarkerFree) =>
        RunAgain = outContent

\* C7 amended: when moreover no line of the output contains a |name| marker
\* of a mapped name, running the substitution on the output gives the output
\* again.
C7_IdempotentWhenOutputMarkerFree ==
    (/\ op \in {"code-block", "prompt"}
     /\ FlagOn
     /\ PassValuesAreStrings
     /\ ValuesMarkerFree
     /\ \A i \in 1..Len(outContent) : NoMarkerOf(outContent[i], PairNames(PassPairs)))
        => RunAgain = outContent

\* C7 witness: a prompt line was changed by the pass, a lone '|' is left in
\* the output and no marker of a mapped name is.
C7_Witness ==
    /\ op = "prompt"
    /\ FlagOn
    /\ ValuesMarkerFree
    /\ Len(inContent) > 0
    /\ outContent[1] # inContent[1]
    /\ Contains(outContent[1], <<"|">>)
    /\ \A i \in 1..Len(outContent) : NoMarkerOf(outContent[i], PairNames(PassPairs))
    /\ RunAgain = outContent

\* C8: when 'prompt' is not registered as the extension is loaded, an error
\* is logged and the import completes, so that setup can run.
C8_MissingPromptNonFatal ==
    (module # "unimported" /\ directives["prompt"] = "absent") =>
        (Len(log) > 0 /\ module = "imported")

\* C9: within one pass over a mapping, text inserted for one name is not
\* replaced as the marker of another name: a line that is the marker of a
\* document name comes out of the pass over the document mapping as that
\* name's value.
C9_InsertedTextNotRescanned ==
    /\ (op = "prompt" /\ FlagOn) =>
          \A i \in 1..Len(inContent) : \A k \in 1..Len(defs) :
              inContent[i] = MarkerOf(defs[k].name)
                  => outContent[i] = astext(defs[k].value)
    /\ (op = "role") =>
          \A k \in 1..Len(defs) :
              inText = MarkerOf(defs[k].name) => outText = astext(defs[k].value)

\* C10 as stated: when a name is defined in both mappings with different
\* (string) values and a code-block line contains its marker, the output line contains
\* the host-config value.
C10_HostValueWins ==
    (op = "code-block" /\ FlagOn /\ HostValuesAreStrings) =>
        \A i \in 1..Len(inContent) : \A k \in 1..Len(defs) : \A h \in 1..Len(HostPairs) :
            (/\ HostPairs[h][1] = defs[k].name
             /\ HostPairs[h][2] # astext(defs[k].value)
             /\ Contains(inContent[i], MarkerOf(defs[k].name)))
                => Contains(outContent[i], HostPairs[h][2])

\* C10 amended: the document pass consumes the marker first.  Unless the
\* text that reaches the host-config entry of that name (the result of the
\* document pass and of the host-config entries before it) contains |name|
\* again, the output line is what it would be without that entry; and a line
\* that is exactly |name|, with no '|' in the name or in the document value,
\* comes out as the document value.
C10_DocumentPassWins ==
    (op = "code-block" /\ FlagOn /\ HostValuesAreStrings) =>
        \A i \in 1..Len(inContent) : \A k \in 1..Len(defs) : \A h \in 1..Len(HostPairs) :
            (/\ HostPairs[h][1] = defs[k].name
             /\ HostPairs[h][2] # astext(defs[k].value)
             /\ Contains(inContent[i], MarkerOf(defs[k].name)))
                => LET afterDoc == MarkerPass(inContent[i], DocPairs(defs), 1)
                       atEntry == MarkerPass(afterDoc, SubSeq(HostPairs, 1, h - 1), 1)
                   IN /\ ~Contains(atEntry, MarkerOf(defs[k].name))
                         => outContent[i] =
                                MarkerPass(afterDoc, Without(HostPairs, defs[k].name), 1)
                      /\ (/\ inContent[i] = MarkerOf(defs[k].name)
                          /\ ~Contains(defs[k].name, <<"|">>)
                          /\ ~Contains(astext(defs[k].value), <<"|">>))
                         => outContent[i] = astext(defs[k].value)

\* C10 witness: the line is |name|, the name has different values in the two
\* mappings, and the output line is the document value.
C10_Witness ==
    /\ op = "code-block"
    /\ FlagOn
    /\ error = "none"
    /\ Len(inContent) > 0
    /\ \E k \in 1..Len(defs) : \E h \in 1..Len(HostPairs) :
         /\ HostPairs[h][1] = defs[k].name
         /\ HostPairs[h][2] # astext(defs[k].value)
         /\ inContent[1] = MarkerOf(defs[k].name)
         /\ outContent[1] = astext(defs[k].value)
         /\ ~Contains(outContent[1], HostPairs[h][2])

====
